---- MODULE Spec2Model ----
(***************************************************************************)
(* The WiZ bulb controller (src/smart-bulb/wiz_bulb_controller.py) and the *)
(* tool layer over it (src/smart-bulb/smart_bulb_server.py).               *)
(*                                                                         *)
(* Every call is synchronous: _send_command opens a socket, sends one      *)
(* datagram and blocks in recvfrom until a datagram or the timeout.  One   *)
(* action of the model is one whole call of a controller method or of a    *)
(* tool; the outcome of the exchange (what the network does) is an input   *)
(* of the action.  ExchangeSpec takes _send_command statement by statement *)
(* instead, for callers that run at the same time.                         *)
(***************************************************************************)
EXTENDS Integers, Sequences, FiniteSets, TLC

VARIABLES
    bulb,          \* the controller object: bulb_ip, port, timeout, socket
    last,          \* the last call made: its layer, operation, arguments and outcome
    openSockets,   \* sockets opened by _send_command and not closed yet
    exch,          \* the exchanges started, in order: caller, socket, position, response
    socks,         \* the sockets created, in order: local port, open or not, receive queue
    wire           \* reply datagrams on their way to the host

vars == <<bulb, last, openSockets, exch, socks, wire>>

(***************************************************************************)
(* Bounds of the model.                                                    *)
(***************************************************************************)
\* Sockets that may stay open at once before the model stops opening more.
MaxOpen == 2

\* The longest output of the host sweep, in tokens.
MaxTokens == 2

\* The exchanges a run of ExchangeSpec starts.
MaxExchanges == 2

\* The datagrams the receive buffer of a socket holds; more are dropped.
MaxQueue == 2

(***************************************************************************)
(* Python values.  A dict is a function over its keys; a value that is not *)
(* a dict carries a tag only, so that `.get` on it fails as in Python.     *)
(***************************************************************************)
None == [t |-> "None"]

EmptyDict == [k \in {} |-> 0]

Dict(d) == [t |-> "dict", v |-> d]

\* A parsed JSON array: a well-formed document that is no mapping.
JsonList == [t |-> "list"]

\* A parsed JSON number standing where a mapping is expected.
JsonInt == [t |-> "int"]

IsDict(x) == x.t = "dict"

\* dict.get(key, default)
Get(d, key, default) == IF key \in DOMAIN d THEN d[key] ELSE default

NoExc == [type |-> "none"]

AttributeError == [type |-> "AttributeError", msg |-> "object has no attribute 'get'"]

ValueError(msg) == [type |-> "ValueError", msg |-> msg]

(***************************************************************************)
(* What the network does with one exchange.                                *)
(***************************************************************************)
\* recvfrom raises socket.timeout: no datagram within the timeout.
Timeout == [kind |-> "timeout"]

\* sendto raises OSError (no route, interface down): nothing leaves the host.
SendError == [kind |-> "send_error"]

\* A datagram arrives whose payload json.loads rejects.
Garbage == [kind |-> "garbage"]

\* A datagram arrives and parses to doc.
Reply(doc) == [kind |-> "reply", doc |-> doc]

(***************************************************************************)
(* WizBulbController._send_command: one exchange.  close() is called on    *)
(* the path that returns the response and on no other.                     *)
(***************************************************************************)
\* The keys of params in the order the dict literals of the methods write
\* them, which is the order json.dumps keeps.
KeyOrder == <<"state", "r", "g", "b", "temp", "sceneId", "speed", "dimming">>

\* A str as JSON text.
Quoted(str) == "\"" \o str \o "\""

\* A value of params as JSON text: state is the one bool, the rest are ints.
Literal(key, value) ==
    IF key = "state" THEN (IF value THEN "true" ELSE "false") ELSE ToString(value)

Members(params) ==
    LET keys == SelectSeq(KeyOrder, LAMBDA key : key \in DOMAIN params)
    IN  [i \in 1..Len(keys) |-> <<keys[i], Literal(keys[i], params[keys[i]])>>]

\* json.dumps(command): the members of the document in order, each with
\* its value as JSON text; params, when the command has it, as the members
\* of the inner document.
json_dumps(command) ==
    <<<<"method", Quoted(command.method)>>>>
    \o (IF "params" \in DOMAIN command
        THEN <<<<"params", Members(command.params)>>>> ELSE <<>>)

Datagram(self, command) ==
    [to |-> <<self.bulb_ip, self.port>>, payload |-> json_dumps(command)]

\* Variant: an unparseable payload is taken for an empty document.
send_command_parse_none(self, command, ch) ==
    [command   |-> command,
     self      |-> self,
     ch        |-> ch,
     sent      |-> IF ch.kind = "send_error" THEN <<>> ELSE <<Datagram(self, command)>>,
     received  |-> IF ch.kind \in {"reply", "garbage"} THEN 1 ELSE 0,
     response  |-> IF ch.kind = "reply" THEN ch.doc
                   ELSE IF ch.kind = "garbage" THEN Dict(EmptyDict) ELSE None,
     opened    |-> 1,
     closed    |-> IF ch.kind = "reply" THEN 1 ELSE 0]

\* Variant: a timeout is taken for the device's acknowledgement.
send_command_timeout_ok(self, command, ch) ==
    [command   |-> command,
     self      |-> self,
     ch        |-> ch,
     sent      |-> IF ch.kind = "send_error" THEN <<>> ELSE <<Datagram(self, command)>>,
     received  |-> IF ch.kind \in {"reply", "garbage"} THEN 1 ELSE 0,
     response  |-> IF ch.kind = "reply" THEN ch.doc
                   ELSE IF ch.kind = "timeout"
                        THEN Dict([result |-> Dict([success |-> TRUE])])
                        ELSE None,
     opened    |-> 1,
     closed    |-> IF ch.kind = "reply" THEN 1 ELSE 0]

\* Variant: the datagram is sent a second time when no reply came.
send_command_resend(self, command, ch) ==
    [command   |-> command,
     self      |-> self,
     ch        |-> ch,
     sent      |-> IF ch.kind = "send_error" THEN <<>>
                   ELSE IF ch.kind = "timeout"
                        THEN <<Datagram(self, command), Datagram(self, command)>>
                        ELSE <<Datagram(self, command)>>,
     received  |-> IF ch.kind \in {"reply", "garbage"} THEN 1 ELSE 0,
     response  |-> IF ch.kind = "reply" THEN ch.doc ELSE None,
     opened    |-> 1,
     closed    |-> IF ch.kind = "reply" THEN 1 ELSE 0]

\* Variant: the socket is kept in the controller for the next call.
send_command_keeps_socket(self, command, ch) ==
    [command   |-> command,
     self      |-> [self EXCEPT !.socket = [t |-> "socket"]],
     ch        |-> ch,
     sent      |-> IF ch.kind = "send_error" THEN <<>> ELSE <<Datagram(self, command)>>,
     received  |-> IF ch.kind \in {"reply", "garbage"} THEN 1 ELSE 0,
     response  |-> IF ch.kind = "reply" THEN ch.doc ELSE None,
     opened    |-> 1,
     closed    |-> 0]

\* One exchange: the command, what the network did with it, the controller
\* as the call leaves it (no statement assigns to self), the datagrams sent
\* and read, the parsed response, and the sockets opened and closed.
_send_command(self, command, ch) ==
    [command   |-> command,
     self      |-> self,
     ch        |-> ch,
     sent      |-> IF ch.kind = "send_error" THEN <<>> ELSE <<Datagram(self, command)>>,
     received  |-> IF ch.kind \in {"reply", "garbage"} THEN 1 ELSE 0,
     response  |-> IF ch.kind = "reply" THEN ch.doc ELSE None,
     opened    |-> 1,
     closed    |-> IF ch.kind = "reply" THEN 1 ELSE 0]

(***************************************************************************)
(* The outcome of a controller method: what it returned or raised, and the *)
(* exchanges it made, in order.                                            *)
(***************************************************************************)
Returned(value, xs) == [exc |-> NoExc, ret |-> value, exchanges |-> xs]

Raised(e, xs) == [exc |-> e, ret |-> None, exchanges |-> xs]

\* Variant: a missing success field defaults to True.
success_of_default_true(x) ==
    IF x.response = None THEN Returned(FALSE, <<x>>)
    ELSE IF ~IsDict(x.response) THEN Raised(AttributeError, <<x>>)
    ELSE LET result == Get(x.response.v, "result", Dict(EmptyDict))
         IN  IF ~IsDict(result) THEN Raised(AttributeError, <<x>>)
             ELSE Returned(Get(result.v, "success", TRUE), <<x>>)

\* response is not None and response.get("result", {}).get("success", False)
success_of(x) ==
    IF x.response = None THEN Returned(FALSE, <<x>>)
    ELSE IF ~IsDict(x.response) THEN Raised(AttributeError, <<x>>)
    ELSE LET result == Get(x.response.v, "result", Dict(EmptyDict))
         IN  IF ~IsDict(result) THEN Raised(AttributeError, <<x>>)
             ELSE Returned(Get(result.v, "success", FALSE), <<x>>)

SetPilot(params) == [method |-> "setPilot", params |-> params]

get_status(self, ch) ==
    LET x == _send_command(self, [method |-> "getPilot"], ch)
    IN  Returned(x.response, <<x>>)

turn_on(self, ch) ==
    success_of(_send_command(self, SetPilot([state |-> TRUE]), ch))

turn_off(self, ch) ==
    success_of(_send_command(self, SetPilot([state |-> FALSE]), ch))

\* Variant: the upper bound is exclusive.
set_brightness_off_by_one(self, brightness, ch) ==
    IF ~(10 <= brightness /\ brightness < 100)
    THEN Raised(ValueError("Brightness must be between 10 and 100"), <<>>)
    ELSE success_of(_send_command(self,
             SetPilot([state |-> TRUE, dimming |-> brightness]), ch))

set_brightness(self, brightness, ch) ==
    IF ~(10 <= brightness /\ brightness <= 100)
    THEN Raised(ValueError("Brightness must be between 10 and 100"), <<>>)
    ELSE success_of(_send_command(self,
             SetPilot([state |-> TRUE, dimming |-> brightness]), ch))

\* Variant: the blue channel is left out of the range check.
set_rgb_color_skip_blue(self, r, g, b, brightness, ch) ==
    IF ~(\A val \in {r, g} : 0 <= val /\ val <= 255)
    THEN Raised(ValueError("RGB values must be between 0 and 255"), <<>>)
    ELSE IF ~(10 <= brightness /\ brightness <= 100)
    THEN Raised(ValueError("Brightness must be between 10 and 100"), <<>>)
    ELSE success_of(_send_command(self,
             SetPilot([state |-> TRUE, r |-> r, g |-> g, b |-> b,
                       dimming |-> brightness]), ch))

set_rgb_color(self, r, g, b, brightness, ch) ==
    IF ~(\A val \in {r, g, b} : 0 <= val /\ val <= 255)
    THEN Raised(ValueError("RGB values must be between 0 and 255"), <<>>)
    ELSE IF ~(10 <= brightness /\ brightness <= 100)
    THEN Raised(ValueError("Brightness must be between 10 and 100"), <<>>)
    ELSE success_of(_send_command(self,
             SetPilot([state |-> TRUE, r |-> r, g |-> g, b |-> b,
                       dimming |-> brightness]), ch))

set_color_temperature(self, temp, brightness, ch) ==
    IF ~(2200 <= temp /\ temp <= 6500)
    THEN Raised(ValueError("Color temperature must be between 2200K and 6500K"), <<>>)
    ELSE IF ~(10 <= brightness /\ brightness <= 100)
    THEN Raised(ValueError("Brightness must be between 10 and 100"), <<>>)
    ELSE success_of(_send_command(self,
             SetPilot([state |-> TRUE, temp |-> temp, dimming |-> brightness]), ch))

\* set_scene checks nothing: the scene id goes on the wire as given.
set_scene(self, scene_id, ch) ==
    success_of(_send_command(self,
        SetPilot([state |-> TRUE, sceneId |-> scene_id]), ch))

\* Variant: the speed command switches the bulb on as the others do.
set_speed_with_state(self, speed, ch) ==
    IF ~(10 <= speed /\ speed <= 200)
    THEN Raised(ValueError("Speed must be between 10 and 200"), <<>>)
    ELSE success_of(_send_command(self, SetPilot([state |-> TRUE, speed |-> speed]), ch))

set_speed(self, speed, ch) ==
    IF ~(10 <= speed /\ speed <= 200)
    THEN Raised(ValueError("Speed must be between 10 and 200"), <<>>)
    ELSE success_of(_send_command(self, SetPilot([speed |-> speed]), ch))

is_online(self, ch) ==
    LET status == get_status(self, ch)
    IN  Returned(status.ret # None, status.exchanges)

(***************************************************************************)
(* discover_bulbs.  The host sweep is a subprocess: it completes with its  *)
(* standard output, is killed at its timeout (the exception carries the    *)
(* output captured so far), cannot be started, or fails otherwise.  The    *)
(* output is a sequence of tokens, each a dotted-quad address or other     *)
(* text.                                                                   *)
(***************************************************************************)
Completed(stdout) == [kind |-> "completed", stdout |-> stdout]
TimeoutExpired(stdout) == [kind |-> "TimeoutExpired", stdout |-> stdout]
FileNotFoundError == [kind |-> "FileNotFoundError"]
OtherError == [kind |-> "Exception"]

\* __init__: the object a constructor call leaves.
WizBulbController(bulb_ip, port, timeout) ==
    [bulb_ip |-> bulb_ip, port |-> port, socket |-> None, timeout |-> timeout]

OtherText == "text"

\* re.findall with the dotted-quad pattern: every match, in order of
\* appearance, a repeated address as often as it appears.
findall(stdout) == SelectSeq(stdout, LAMBDA token : token # OtherText)

RECURSIVE probe_all(_, _, _)
\* The loop over ips from position i: a controller of its own for each
\* candidate, one is_online call on it, the address appended when it
\* answers True.  chs[i] is what the network does with the i-th probe.
probe_all(ips, chs, i) ==
    IF i > Len(ips) THEN [bulb_ips |-> <<>>, exchanges |-> <<>>]
    ELSE LET controller == WizBulbController(ips[i], 38899, 1)
             online == is_online(controller, chs[i])
             rest   == probe_all(ips, chs, i + 1)
         IN  [bulb_ips  |-> (IF online.ret THEN <<ips[i]>> ELSE <<>>) \o rest.bulb_ips,
              exchanges |-> online.exchanges \o rest.exchanges]

\* Variant: what a timed-out sweep had already printed is probed.
discover_bulbs_partial(sweep, chs) ==
    IF sweep.kind \in {"completed", "TimeoutExpired"}
    THEN LET found == probe_all(findall(sweep.stdout), chs, 1)
         IN  Returned(found.bulb_ips, found.exchanges)
    ELSE Returned(<<>>, <<>>)

\* Variant: the sweep's timeout is not caught.
discover_bulbs_raising(sweep, chs) ==
    IF sweep.kind = "completed"
    THEN LET found == probe_all(findall(sweep.stdout), chs, 1)
         IN  Returned(found.bulb_ips, found.exchanges)
    ELSE IF sweep.kind = "TimeoutExpired"
    THEN Raised([type |-> "TimeoutExpired"], <<>>)
    ELSE Returned(<<>>, <<>>)

discover_bulbs(sweep, chs) ==
    IF sweep.kind = "completed"
    THEN LET found == probe_all(findall(sweep.stdout), chs, 1)
         IN  Returned(found.bulb_ips, found.exchanges)
    ELSE Returned(<<>>, <<>>)

(***************************************************************************)
(* smart_bulb_server.py: the module's controller and its tools.  A tool    *)
(* returns a dict; the model keeps the exchanges of the call beside it.    *)
(***************************************************************************)
BULB_IP == "192.168.1.8"

ToolOut(result, xs) == [result |-> result, exchanges |-> xs]

\* f"{a}{b}...": the pieces of the formatted text, in order.
Fmt(pieces) == pieces

\* The dict of the keys of d that `present` holds, for results built key by key.
When(present, d) == IF present THEN d ELSE EmptyDict

\* Variant: a reply without a state field reads as on.
interpret_status_default_on(status) ==
    LET pilot_data == Get(status.v, "result", Dict(EmptyDict)).v
    IN  [bulb_ip |-> BULB_IP,
         status  |-> "online",
         state   |-> IF Get(pilot_data, "state", TRUE) THEN "on" ELSE "off"]
        @@ When("dimming" \in DOMAIN pilot_data,
                [brightness |-> Fmt(<<pilot_data["dimming"], "%">>)])
        @@ (IF {"r", "g", "b"} \subseteq DOMAIN pilot_data
            THEN [color |-> Fmt(<<"RGB(", pilot_data["r"], ", ", pilot_data["g"],
                                  ", ", pilot_data["b"], ")">>)]
            ELSE When("temp" \in DOMAIN pilot_data,
                      [color_temperature |-> Fmt(<<pilot_data["temp"], "K">>)]))
        @@ When("sceneId" \in DOMAIN pilot_data,
                [scene_id |-> pilot_data["sceneId"]])

\* Variant: the color temperature is reported beside the RGB triple.
interpret_status_temp_always(status) ==
    LET pilot_data == Get(status.v, "result", Dict(EmptyDict)).v
    IN  [bulb_ip |-> BULB_IP,
         status  |-> "online",
         state   |-> IF Get(pilot_data, "state", FALSE) THEN "on" ELSE "off"]
        @@ When("dimming" \in DOMAIN pilot_data,
                [brightness |-> Fmt(<<pilot_data["dimming"], "%">>)])
        @@ (IF {"r", "g", "b"} \subseteq DOMAIN pilot_data
            THEN [color |-> Fmt(<<"RGB(", pilot_data["r"], ", ", pilot_data["g"],
                                  ", ", pilot_data["b"], ")">>)]
            ELSE EmptyDict)
        @@ When("temp" \in DOMAIN pilot_data,
                [color_temperature |-> Fmt(<<pilot_data["temp"], "K">>)])
        @@ When("sceneId" \in DOMAIN pilot_data,
                [scene_id |-> pilot_data["sceneId"]])

\* get_bulb_status, from the result dict on: the fields read off the reply.
interpret_status(status) ==
    LET pilot_data == Get(status.v, "result", Dict(EmptyDict)).v
    IN  [bulb_ip |-> BULB_IP,
         status  |-> "online",
         state   |-> IF Get(pilot_data, "state", FALSE) THEN "on" ELSE "off"]
        @@ When("dimming" \in DOMAIN pilot_data,
                [brightness |-> Fmt(<<pilot_data["dimming"], "%">>)])
        @@ (IF {"r", "g", "b"} \subseteq DOMAIN pilot_data
            THEN [color |-> Fmt(<<"RGB(", pilot_data["r"], ", ", pilot_data["g"],
                                  ", ", pilot_data["b"], ")">>)]
            ELSE When("temp" \in DOMAIN pilot_data,
                      [color_temperature |-> Fmt(<<pilot_data["temp"], "K">>)]))
        @@ When("sceneId" \in DOMAIN pilot_data,
                [scene_id |-> pilot_data["sceneId"]])

get_bulb_status(ch) ==
    LET e == get_status(bulb, ch)
        status == e.ret
    IN  IF status = None
        THEN ToolOut([error   |-> Fmt(<<"Failed to get status from bulb at ", BULB_IP>>),
                      bulb_ip |-> BULB_IP,
                      status  |-> "offline"], e.exchanges)
        ELSE IF ~IsDict(status) \/ ~IsDict(Get(status.v, "result", Dict(EmptyDict)))
        THEN ToolOut([error   |-> Fmt(<<"Error getting bulb status: ", AttributeError.msg>>),
                      bulb_ip |-> BULB_IP,
                      status  |-> "error"], e.exchanges)
        ELSE ToolOut(interpret_status(status), e.exchanges)

\* Variant: no except clause, so what turn_on raises leaves the tool.
turn_bulb_on_unguarded(ch) ==
    LET e == turn_on(bulb, ch)
        success == e.ret
    IN  IF e.exc = NoExc
        THEN ToolOut([operation |-> "turn_on",
                      bulb_ip   |-> BULB_IP,
                      success   |-> success,
                      message   |-> IF success THEN Fmt(<<"Bulb turned on successfully">>)
                                               ELSE Fmt(<<"Failed to turn on bulb">>)],
                     e.exchanges)
        ELSE e

turn_bulb_on(ch) ==
    LET e == turn_on(bulb, ch)
        success == e.ret
    IN  IF e.exc = NoExc
        THEN ToolOut([operation |-> "turn_on",
                      bulb_ip   |-> BULB_IP,
                      success   |-> success,
                      message   |-> IF success THEN Fmt(<<"Bulb turned on successfully">>)
                                               ELSE Fmt(<<"Failed to turn on bulb">>)],
                     e.exchanges)
        ELSE ToolOut([operation |-> "turn_on",
                      bulb_ip   |-> BULB_IP,
                      success   |-> FALSE,
                      error     |-> Fmt(<<"Error turning on bulb: ", e.exc.msg>>)],
                     e.exchanges)

turn_bulb_off(ch) ==
    LET e == turn_off(bulb, ch)
        success == e.ret
    IN  IF e.exc = NoExc
        THEN ToolOut([operation |-> "turn_off",
                      bulb_ip   |-> BULB_IP,
                      success   |-> success,
                      message   |-> IF success THEN Fmt(<<"Bulb turned off successfully">>)
                                               ELSE Fmt(<<"Failed to turn off bulb">>)],
                     e.exchanges)
        ELSE ToolOut([operation |-> "turn_off",
                      bulb_ip   |-> BULB_IP,
                      success   |-> FALSE,
                      error     |-> Fmt(<<"Error turning off bulb: ", e.exc.msg>>)],
                     e.exchanges)

set_bulb_brightness(brightness, ch) ==
    IF ~(10 <= brightness /\ brightness <= 100)
    THEN ToolOut([operation |-> "set_brightness",
                  bulb_ip   |-> BULB_IP,
                  success   |-> FALSE,
                  error     |-> Fmt(<<"Brightness must be between 10 and 100">>),
                  requested_brightness |-> brightness], <<>>)
    ELSE LET e == set_brightness(bulb, brightness, ch)
             success == e.ret
         IN  IF e.exc = NoExc
             THEN ToolOut([operation  |-> "set_brightness",
                           bulb_ip    |-> BULB_IP,
                           success    |-> success,
                           brightness |-> brightness,
                           message    |-> IF success
                               THEN Fmt(<<"Brightness set to ", brightness, "%">>)
                               ELSE Fmt(<<"Failed to set brightness to ", brightness, "%">>)],
                          e.exchanges)
             ELSE ToolOut([operation  |-> "set_brightness",
                           bulb_ip    |-> BULB_IP,
                           success    |-> FALSE,
                           brightness |-> brightness,
                           error      |-> Fmt(<<"Error setting brightness: ", e.exc.msg>>)],
                          e.exchanges)

set_bulb_rgb_color(r, g, b, brightness, ch) ==
    IF ~(\A val \in {r, g, b} : 0 <= val /\ val <= 255)
    THEN ToolOut([operation |-> "set_rgb_color",
                  bulb_ip   |-> BULB_IP,
                  success   |-> FALSE,
                  error     |-> Fmt(<<"RGB values must be between 0 and 255">>),
                  requested_color |-> Fmt(<<"RGB(", r, ", ", g, ", ", b, ")">>)], <<>>)
    ELSE IF ~(10 <= brightness /\ brightness <= 100)
    THEN ToolOut([operation |-> "set_rgb_color",
                  bulb_ip   |-> BULB_IP,
                  success   |-> FALSE,
                  error     |-> Fmt(<<"Brightness must be between 10 and 100">>),
                  requested_brightness |-> brightness], <<>>)
    ELSE LET e == set_rgb_color(bulb, r, g, b, brightness, ch)
             success == e.ret
         IN  IF e.exc = NoExc
             THEN ToolOut([operation  |-> "set_rgb_color",
                           bulb_ip    |-> BULB_IP,
                           success    |-> success,
                           color      |-> Fmt(<<"RGB(", r, ", ", g, ", ", b, ")">>),
                           brightness |-> brightness,
                           message    |-> IF success
                               THEN Fmt(<<"Color set to RGB(", r, ", ", g, ", ", b, ") at ",
                                          brightness, "% brightness">>)
                               ELSE Fmt(<<"Failed to set RGB color">>)],
                          e.exchanges)
             ELSE ToolOut([operation  |-> "set_rgb_color",
                           bulb_ip    |-> BULB_IP,
                           success    |-> FALSE,
                           color      |-> Fmt(<<"RGB(", r, ", ", g, ", ", b, ")">>),
                           brightness |-> brightness,
                           error      |-> Fmt(<<"Error setting RGB color: ", e.exc.msg>>)],
                          e.exchanges)

set_bulb_color_temperature(temperature, brightness, ch) ==
    IF ~(2200 <= temperature /\ temperature <= 6500)
    THEN ToolOut([operation |-> "set_color_temperature",
                  bulb_ip   |-> BULB_IP,
                  success   |-> FALSE,
                  error     |-> Fmt(<<"Color temperature must be between 2200K and 6500K">>),
                  requested_temperature |-> Fmt(<<temperature, "K">>)], <<>>)
    ELSE IF ~(10 <= brightness /\ brightness <= 100)
    THEN ToolOut([operation |-> "set_color_temperature",
                  bulb_ip   |-> BULB_IP,
                  success   |-> FALSE,
                  error     |-> Fmt(<<"Brightness must be between 10 and 100">>),
                  requested_brightness |-> brightness], <<>>)
    ELSE LET e == set_color_temperature(bulb, temperature, brightness, ch)
             success == e.ret
         IN  IF e.exc = NoExc
             THEN ToolOut([operation   |-> "set_color_temperature",
                           bulb_ip     |-> BULB_IP,
                           success     |-> success,
                           temperature |-> Fmt(<<temperature, "K">>),
                           brightness  |-> brightness,
                           message     |-> IF success
                               THEN Fmt(<<"Color temperature set to ", temperature, "K at ",
                                          brightness, "% brightness">>)
                               ELSE Fmt(<<"Failed to set color temperature">>)],
                          e.exchanges)
             ELSE ToolOut([operation   |-> "set_color_temperature",
                           bulb_ip     |-> BULB_IP,
                           success     |-> FALSE,
                           temperature |-> Fmt(<<temperature, "K">>),
                           brightness  |-> brightness,
                           error       |-> Fmt(<<"Error setting color temperature: ",
                                                 e.exc.msg>>)],
                          e.exchanges)

\* scene_names: the name of scene i is the i-th entry.
scene_names ==
    <<"Ocean", "Romance", "Sunset", "Party", "Fireplace",
      "Cozy", "Forest", "Pastel Colors", "Wake up", "Bedtime",
      "Warm White", "Daylight", "Cool white", "Night light",
      "Focus", "Relax", "True colors", "TV time", "Plantgrowth",
      "Spring", "Summer", "Fall", "Deepdive", "Jungle",
      "Mojito", "Club", "Christmas", "Halloween", "Candlelight",
      "Golden white", "Pulse", "Steampunk">>

\* Variant: the tool leaves the range check to the controller.
set_bulb_scene_unchecked(scene_id, ch) ==
    LET e == set_scene(bulb, scene_id, ch)
        success == e.ret
        scene_name == IF scene_id \in DOMAIN scene_names
                      THEN Fmt(<<scene_names[scene_id]>>)
                      ELSE Fmt(<<"Scene ", scene_id>>)
    IN  IF e.exc = NoExc
        THEN ToolOut([operation  |-> "set_scene",
                      bulb_ip    |-> BULB_IP,
                      success    |-> success,
                      scene_id   |-> scene_id,
                      scene_name |-> scene_name,
                      message    |-> IF success
                          THEN Fmt(<<"Scene set to '">> \o scene_name
                                   \o <<"' (ID: ", scene_id, ")">>)
                          ELSE Fmt(<<"Failed to set scene '">> \o scene_name \o <<"'">>)],
                     e.exchanges)
        ELSE ToolOut([operation |-> "set_scene",
                      bulb_ip   |-> BULB_IP,
                      success   |-> FALSE,
                      scene_id  |-> scene_id,
                      error     |-> Fmt(<<"Error setting scene: ", e.exc.msg>>)],
                     e.exchanges)

set_bulb_scene(scene_id, ch) ==
    IF ~(1 <= scene_id /\ scene_id <= 32)
    THEN ToolOut([operation |-> "set_scene",
                  bulb_ip   |-> BULB_IP,
                  success   |-> FALSE,
                  error     |-> Fmt(<<"Scene ID must be between 1 and 32">>),
                  requested_scene_id |-> scene_id], <<>>)
    ELSE LET e == set_scene(bulb, scene_id, ch)
             success == e.ret
             scene_name == IF scene_id \in DOMAIN scene_names
                           THEN Fmt(<<scene_names[scene_id]>>)
                           ELSE Fmt(<<"Scene ", scene_id>>)
         IN  IF e.exc = NoExc
             THEN ToolOut([operation  |-> "set_scene",
                           bulb_ip    |-> BULB_IP,
                           success    |-> success,
                           scene_id   |-> scene_id,
                           scene_name |-> scene_name,
                           message    |-> IF success
                               THEN Fmt(<<"Scene set to '">> \o scene_name
                                        \o <<"' (ID: ", scene_id, ")">>)
                               ELSE Fmt(<<"Failed to set scene '">> \o scene_name
                                        \o <<"'">>)],
                          e.exchanges)
             ELSE ToolOut([operation |-> "set_scene",
                           bulb_ip   |-> BULB_IP,
                           success   |-> FALSE,
                           scene_id  |-> scene_id,
                           error     |-> Fmt(<<"Error setting scene: ", e.exc.msg>>)],
                          e.exchanges)

check_bulb_connection(ch) ==
    LET e == is_online(bulb, ch)
        online == e.ret
    IN  ToolOut([operation |-> "check_connection",
                 bulb_ip   |-> BULB_IP,
                 online    |-> online,
                 status    |-> IF online THEN "connected" ELSE "disconnected",
                 message   |-> Fmt(<<"Bulb at ", BULB_IP, " is ",
                                     IF online THEN "online" ELSE "offline">>)],
                e.exchanges)

(***************************************************************************)
(* The inputs the actions draw from: arguments on both sides of every      *)
(* bound the code checks, and the replies a datagram can carry.  A reply   *)
(* may be no mapping, lack result, carry a result that is no mapping, or   *)
(* lack any field of it; a field that is present has the type the device   *)
(* gives it (success and state booleans, the others integers).             *)
(***************************************************************************)
BrightnessArgs == {9, 10, 100, 101}

\* RGB triples: in range at both ends, one channel out of range at either
\* end in each position, and all three out of range.
RgbArgs ==
    { <<0, 0, 0>>, <<255, 0, 0>>, <<255, 255, 255>>,
      <<-1, 0, 0>>, <<256, 0, 0>>, <<0, -1, 255>>, <<0, 256, 255>>,
      <<255, 0, -1>>, <<255, 0, 256>>, <<-1, 256, -1>> }

TemperatureArgs == {2199, 2200, 6500, 6501}

SceneArgs == {0, 1, 2, 32, 33}

SpeedArgs == {9, 10, 200, 201}

\* Replies to a setPilot, well-formed or not.
SetReplies ==
    { Dict([result |-> Dict([success |-> TRUE])]),
      Dict([result |-> Dict([success |-> FALSE])]),
      Dict([result |-> Dict(EmptyDict)]),
      Dict(EmptyDict),
      Dict([result |-> JsonInt]),
      JsonList }

PilotKeys == {"state", "dimming", "r", "g", "b", "temp", "sceneId"}

FullPilots ==
    [state: BOOLEAN, dimming: {80, 100}, r: {255}, g: {0}, b: {0},
     temp: {4000}, sceneId: {2}]

\* Every result document of a getPilot reply: any subset of the keys.
Pilots == { [k \in K |-> full[k]] : full \in FullPilots, K \in SUBSET PilotKeys }

StatusReplies == { Dict([result |-> Dict(p)]) : p \in Pilots }

Failures == {Timeout, SendError, Garbage}

SetOutcomes == Failures \cup { Reply(d) : d \in SetReplies }

StatusOutcomes == SetOutcomes \cup { Reply(d) : d \in StatusReplies }

\* For the calls that only look at whether a response came: two status
\* replies beside the failures and the other documents.
ProbeOutcomes ==
    SetOutcomes \cup
    { Reply(Dict([result |-> Dict([state |-> TRUE, dimming |-> 80, r |-> 255,
                                   g |-> 0, b |-> 0])])),
      Reply(Dict([result |-> Dict([state |-> FALSE, dimming |-> 100, temp |-> 4000])])) }

\* Discovery: two addresses of the scanned range, the output of the sweep
\* up to MaxTokens tokens long, and what each probe meets.
Addresses == {"192.168.1.5", "192.168.1.7"}

Stdouts == UNION { [1..n -> Addresses \cup {OtherText}] : n \in 0..MaxTokens }

Sweeps ==
    { Completed(o) : o \in Stdouts } \cup { TimeoutExpired(o) : o \in Stdouts }
    \cup {FileNotFoundError, OtherError}

DiscoveryOutcomes ==
    { Timeout, Garbage,
      Reply(Dict([result |-> Dict([state |-> TRUE, dimming |-> 80, temp |-> 4000])])),
      Reply(Dict(EmptyDict)) }

(***************************************************************************)
(* The state machine.                                                      *)
(***************************************************************************)
NoCall == [layer |-> "none"]

RECURSIVE Unclosed(_)
\* Sockets the exchanges xs opened and returned without closing.
Unclosed(xs) ==
    IF xs = <<>> THEN 0
    ELSE (Head(xs).opened - Head(xs).closed) + Unclosed(Tail(xs))

\* The module's controller when a call returns: every call but discovery,
\* which builds controllers of its own, is made on it.
ControllerAfter(layer, xs) ==
    IF layer = "discovery" \/ xs = <<>> THEN bulb ELSE xs[Len(xs)].self

Init ==
    /\ bulb = WizBulbController(BULB_IP, 38899, 2)
    /\ last = NoCall
    /\ openSockets = 0
    /\ exch = <<>>
    /\ socks = <<>>
    /\ wire = {}

\* The call returns `out`.  A socket it left unclosed is closed at once when
\* the interpreter finalizes the dropped object on return, and stays open
\* until a later collection otherwise.
Finish(layer, op, args, out) ==
    /\ \E finalized \in 0..Unclosed(out.exchanges) :
          /\ openSockets + Unclosed(out.exchanges) - finalized <= MaxOpen
          /\ openSockets' = openSockets + Unclosed(out.exchanges) - finalized
    /\ last' = [layer |-> layer, op |-> op, args |-> args, out |-> out]
    /\ bulb' = ControllerAfter(layer, out.exchanges)
    /\ UNCHANGED <<exch, socks, wire>>

\* The garbage collector finalizes a socket object nothing refers to.
Collect ==
    /\ openSockets > 0
    /\ openSockets' = openSockets - 1
    /\ UNCHANGED <<bulb, last, exch, socks, wire>>

CtlGetStatus ==
    \E ch \in ProbeOutcomes :
        Finish("controller", "get_status", <<>>, get_status(bulb, ch))

CtlIsOnline ==
    \E ch \in ProbeOutcomes :
        Finish("controller", "is_online", <<>>, is_online(bulb, ch))

CtlTurnOn ==
    \E ch \in SetOutcomes :
        Finish("controller", "turn_on", <<>>, turn_on(bulb, ch))

CtlTurnOff ==
    \E ch \in SetOutcomes :
        Finish("controller", "turn_off", <<>>, turn_off(bulb, ch))

CtlSetBrightness ==
    \E brightness \in BrightnessArgs, ch \in SetOutcomes :
        Finish("controller", "set_brightness", <<brightness>>,
               set_brightness(bulb, brightness, ch))

CtlSetRgbColor ==
    \E rgb \in RgbArgs, brightness \in BrightnessArgs, ch \in SetOutcomes :
        Finish("controller", "set_rgb_color", <<rgb[1], rgb[2], rgb[3], brightness>>,
               set_rgb_color(bulb, rgb[1], rgb[2], rgb[3], brightness, ch))

CtlSetColorTemperature ==
    \E temp \in TemperatureArgs, brightness \in BrightnessArgs, ch \in SetOutcomes :
        Finish("controller", "set_color_temperature", <<temp, brightness>>,
               set_color_temperature(bulb, temp, brightness, ch))

CtlSetScene ==
    \E scene_id \in SceneArgs, ch \in SetOutcomes :
        Finish("controller", "set_scene", <<scene_id>>, set_scene(bulb, scene_id, ch))

CtlSetSpeed ==
    \E speed \in SpeedArgs, ch \in SetOutcomes :
        Finish("controller", "set_speed", <<speed>>, set_speed(bulb, speed, ch))

ToolGetBulbStatus ==
    \E ch \in StatusOutcomes :
        Finish("tool", "get_bulb_status", <<>>, get_bulb_status(ch))

ToolCheckBulbConnection ==
    \E ch \in ProbeOutcomes :
        Finish("tool", "check_bulb_connection", <<>>, check_bulb_connection(ch))

ToolTurnBulbOn ==
    \E ch \in SetOutcomes :
        Finish("tool", "turn_bulb_on", <<>>, turn_bulb_on(ch))

ToolTurnBulbOff ==
    \E ch \in SetOutcomes :
        Finish("tool", "turn_bulb_off", <<>>, turn_bulb_off(ch))

ToolSetBulbBrightness ==
    \E brightness \in BrightnessArgs, ch \in SetOutcomes :
        Finish("tool", "set_bulb_brightness", <<brightness>>,
               set_bulb_brightness(brightness, ch))

ToolSetBulbRgbColor ==
    \E rgb \in RgbArgs, brightness \in BrightnessArgs, ch \in SetOutcomes :
        Finish("tool", "set_bulb_rgb_color", <<rgb[1], rgb[2], rgb[3], brightness>>,
               set_bulb_rgb_color(rgb[1], rgb[2], rgb[3], brightness, ch))

ToolSetBulbColorTemperature ==
    \E temperature \in TemperatureArgs, brightness \in BrightnessArgs,
       ch \in SetOutcomes :
        Finish("tool", "set_bulb_color_temperature", <<temperature, brightness>>,
               set_bulb_color_temperature(temperature, brightness, ch))

ToolSetBulbScene ==
    \E scene_id \in SceneArgs, ch \in SetOutcomes :
        Finish("tool", "set_bulb_scene", <<scene_id>>, set_bulb_scene(scene_id, ch))

\* One call of discover_bulbs: the sweep, then a probe of every address
\* the output names.
Discover ==
    \E sweep \in Sweeps :
        \E chs \in [1..(IF sweep.kind = "FileNotFoundError" \/ sweep.kind = "Exception"
                        THEN 0 ELSE Len(findall(sweep.stdout))) -> DiscoveryOutcomes] :
            Finish("discovery", "discover_bulbs", <<sweep>>, discover_bulbs(sweep, chs))

Next ==
    \/ CtlGetStatus
    \/ CtlIsOnline
    \/ CtlTurnOn
    \/ CtlTurnOff
    \/ CtlSetBrightness
    \/ CtlSetRgbColor
    \/ CtlSetColorTemperature
    \/ CtlSetScene
    \/ CtlSetSpeed
    \/ ToolGetBulbStatus
    \/ ToolCheckBulbConnection
    \/ ToolTurnBulbOn
    \/ ToolTurnBulbOff
    \/ ToolSetBulbBrightness
    \/ ToolSetBulbRgbColor
    \/ ToolSetBulbColorTemperature
    \/ ToolSetBulbScene
    \/ Collect

Spec == Init /\ [][Next]_vars

\* The runs of the discovery function, which the server never calls.
DiscoveryNext ==
    \/ Discover
    \/ Collect

DiscoverySpec == Init /\ [][DiscoveryNext]_vars

(***************************************************************************)
(* _send_command statement by statement.  A socket gets its local port     *)
(* from the operating system at its first sendto: any port no open socket  *)
(* is bound to.  The reply to a request is addressed to that port; it is   *)
(* queued on the open socket bound to the port when it arrives, and        *)
(* discarded when there is none.  Any other host may send a datagram to a  *)
(* port as well, with a payload that parses or not.                        *)
(***************************************************************************)
Callers == {"a", "b"}

Ports == {49152, 49153}

Pending == [kind |-> "pending"]
TimedOut == [kind |-> "timeout"]
Failed == [kind |-> "error"]

\* A datagram for a local port: the reply of the device to exchange `for`,
\* or, with for = 0, a datagram of another sender.
Packet(port, for, parses) == [port |-> port, for |-> for, parses |-> parses]
Answer(for, via) == [kind |-> "reply", for |-> for, via |-> via]

\* The ports open sockets are bound to.
BoundPorts ==
    { socks[s].port : s \in { t \in 1..Len(socks) : socks[t].open /\ socks[t].port # 0 } }

\* Caller c is in no call of _send_command.
Idle(c) == \A e \in 1..Len(exch) : exch[e].caller = c => exch[e].pc = "returned"

\* sock = socket.socket(AF_INET, SOCK_DGRAM); sock.settimeout(self.timeout)
OpenSocket(c) ==
    /\ Idle(c)
    /\ Len(exch) < MaxExchanges
    /\ socks' = Append(socks, [port |-> 0, open |-> TRUE, queue |-> <<>>])
    /\ exch' = Append(exch, [caller |-> c, sock |-> Len(socks) + 1, pc |-> "opened",
                             response |-> Pending])
    /\ UNCHANGED <<bulb, last, openSockets, wire>>

\* sock.sendto(message, (self.bulb_ip, self.port)): the socket is bound, the
\* request leaves, and the device's reply to it is on its way.
SendTo(e) ==
    /\ exch[e].pc = "opened"
    /\ \E port \in Ports \ BoundPorts :
          /\ socks' = [socks EXCEPT ![exch[e].sock].port = port]
          /\ wire' = wire \cup {Packet(port, e, TRUE)}
    /\ exch' = [exch EXCEPT ![e].pc = "sent"]
    /\ UNCHANGED <<bulb, last, openSockets>>

\* sendto raises (no route, no free port): except Exception, return None,
\* the socket is not closed.
SendFails(e) ==
    /\ exch[e].pc = "opened"
    /\ exch' = [exch EXCEPT ![e].pc = "returned", ![e].response = Failed]
    /\ UNCHANGED <<bulb, last, openSockets, socks, wire>>

\* Another host sends a datagram to a port of this one; one such datagram
\* is on its way at a time.
Stray(port, parses) ==
    /\ port \in BoundPorts
    /\ \A d \in wire : d.for # 0
    /\ wire' = wire \cup {Packet(port, 0, parses)}
    /\ UNCHANGED <<bulb, last, openSockets, exch, socks>>

\* Some call is waiting in recvfrom on socket s.
Read(s) == \E e \in 1..Len(exch) : exch[e].sock = s /\ exch[e].pc = "sent"

\* A datagram reaches the host.  What arrives for a socket no call will
\* read again is of no effect and is left out of its queue.
Arrive(d) ==
    /\ d \in wire
    /\ wire' = wire \ {d}
    /\ LET bound == { s \in 1..Len(socks) :
                        /\ socks[s].open
                        /\ socks[s].port = d.port
                        /\ Read(s)
                        /\ Len(socks[s].queue) < MaxQueue }
       IN  socks' = [s \in 1..Len(socks) |->
                        IF s \in bound
                        THEN [socks[s] EXCEPT !.queue = Append(@, d)]
                        ELSE socks[s]]
    /\ UNCHANGED <<bulb, last, openSockets, exch>>

\* Variant: a datagram of another sender is not taken for the response.
RecvFrom_checks_sender(e) ==
    /\ exch[e].pc = "sent"
    /\ socks[exch[e].sock].open
    /\ socks[exch[e].sock].queue # <<>>
    /\ LET data == Head(socks[exch[e].sock].queue)
       IN  IF data.parses /\ data.for # 0
           THEN /\ exch' = [exch EXCEPT ![e].pc = "returned",
                                        ![e].response = Answer(data.for, exch[e].sock)]
                /\ socks' = [socks EXCEPT ![exch[e].sock].queue = <<>>,
                                          ![exch[e].sock].open = FALSE]
           ELSE /\ exch' = [exch EXCEPT ![e].pc = "returned", ![e].response = Failed]
                /\ socks' = [socks EXCEPT ![exch[e].sock].queue = <<>>]
    /\ UNCHANGED <<bulb, last, openSockets, wire>>

\* data, _ = sock.recvfrom(2048) with a datagram queued: the first one,
\* whoever sent it.  When json.loads accepts it: sock.close(); return
\* response.  When not: except Exception, return None, no close.
RecvFrom(e) ==
    /\ exch[e].pc = "sent"
    /\ socks[exch[e].sock].open
    /\ socks[exch[e].sock].queue # <<>>
    /\ LET data == Head(socks[exch[e].sock].queue)
       IN  IF data.parses
           THEN /\ exch' = [exch EXCEPT ![e].pc = "returned",
                                        ![e].response = Answer(data.for, exch[e].sock)]
                /\ socks' = [socks EXCEPT ![exch[e].sock].queue = <<>>,
                                          ![exch[e].sock].open = FALSE]
           ELSE /\ exch' = [exch EXCEPT ![e].pc = "returned", ![e].response = Failed]
                /\ socks' = [socks EXCEPT ![exch[e].sock].queue = <<>>]
    /\ UNCHANGED <<bulb, last, openSockets, wire>>

\* Variant: the socket has no timeout and recvfrom waits for a datagram.
RecvTimeout_never(e) ==
    /\ exch[e].pc = "sent"
    /\ FALSE
    /\ UNCHANGED vars

\* recvfrom raises socket.timeout: return None, the socket is not closed.
RecvTimeout(e) ==
    /\ exch[e].pc = "sent"
    /\ socks[exch[e].sock].queue = <<>>
    /\ exch' = [exch EXCEPT ![e].pc = "returned", ![e].response = TimedOut]
    /\ UNCHANGED <<bulb, last, openSockets, socks, wire>>

\* The interpreter finalizes a socket no running call refers to.
Finalize(s) ==
    /\ socks[s].open
    /\ \A e \in 1..Len(exch) : exch[e].sock = s => exch[e].pc = "returned"
    /\ socks' = [socks EXCEPT ![s].open = FALSE]
    /\ UNCHANGED <<bulb, last, openSockets, exch, wire>>

ExchangeNext ==
    \/ \E c \in Callers : OpenSocket(c)
    \/ \E e \in 1..Len(exch) : SendTo(e)
    \/ \E e \in 1..Len(exch) : SendFails(e)
    \/ \E port \in Ports, parses \in BOOLEAN : Stray(port, parses)
    \/ \E d \in wire : Arrive(d)
    \/ \E e \in 1..Len(exch) : RecvFrom(e)
    \/ \E e \in 1..Len(exch) : RecvTimeout(e)
    \/ \E s \in 1..Len(socks) : Finalize(s)

ExchangeSpec == Init /\ [][ExchangeNext]_vars

\* sock.settimeout(self.timeout) bounds recvfrom: a call that waits gets a
\* datagram or socket.timeout, it does not wait for ever.
RecvReturns ==
    \A e \in 1..MaxExchanges :
        WF_vars(e \in DOMAIN exch /\ (RecvFrom(e) \/ RecvTimeout(e)))

FairExchangeSpec == ExchangeSpec /\ RecvReturns

(***************************************************************************)
(* What the properties read off the last call.                             *)
(***************************************************************************)
Called(layer, op) == last.layer = layer /\ last.op = op

\* The exchanges the last call made.
Exchanges == IF last.layer = "none" THEN <<>> ELSE last.out.exchanges

RECURSIVE DatagramsIn(_)
DatagramsIn(xs) == IF xs = <<>> THEN 0 ELSE Len(Head(xs).sent) + DatagramsIn(Tail(xs))

\* The call made no exchange.
NoExchange == [kind |-> "none"]

\* What the network did with the exchange of call c, if it made one.
ChOf(c) ==
    IF c.layer = "none" THEN NoExchange
    ELSE IF c.out.exchanges = <<>> THEN NoExchange
    ELSE c.out.exchanges[1].ch

\* The texts of the validation errors of the tools.
ValidationErrors ==
    { <<"Brightness must be between 10 and 100">>,
      <<"RGB values must be between 0 and 255">>,
      <<"Color temperature must be between 2200K and 6500K">>,
      <<"Scene ID must be between 1 and 32">> }

\* A tool's result reporting an invalid argument.
InvalidArgument(result) ==
    /\ result.success = FALSE
    /\ "error" \in DOMAIN result
    /\ result.error \in ValidationErrors

\* A controller method reporting an invalid argument: it raises ValueError.
RaisedValueError(out) == out.exc.type = "ValueError"

\* A reply that is a mapping whose result is a mapping with success = true.
SaysSuccess(ch) ==
    /\ ch.kind = "reply"
    /\ IsDict(ch.doc)
    /\ "result" \in DOMAIN ch.doc.v
    /\ IsDict(ch.doc.v["result"])
    /\ "success" \in DOMAIN ch.doc.v["result"].v
    /\ ch.doc.v["result"].v["success"] = TRUE

(***************************************************************************)
(* C1.  set brightness outside [10,100] reports an invalid argument and    *)
(* makes no exchange (no datagram is sent); inside [10,100] it makes       *)
(* exactly one exchange.  Both for the tool and for the controller method. *)
(***************************************************************************)
C1_BrightnessValidatedBeforeExchange ==
    /\ Called("tool", "set_bulb_brightness") =>
          IF last.args[1] < 10 \/ last.args[1] > 100
          THEN /\ InvalidArgument(last.out.result)
               /\ Exchanges = <<>>
               /\ DatagramsIn(Exchanges) = 0
          ELSE Len(Exchanges) = 1
    /\ Called("controller", "set_brightness") =>
          IF last.args[1] < 10 \/ last.args[1] > 100
          THEN /\ RaisedValueError(last.out)
               /\ Exchanges = <<>>
               /\ DatagramsIn(Exchanges) = 0
          ELSE Len(Exchanges) = 1

C1_Witness ==
    /\ Called("tool", "set_bulb_brightness")
    /\ last.args[1] = 101
    /\ InvalidArgument(last.out.result)
    /\ Exchanges = <<>>

(***************************************************************************)
(* C2.  set RGB color with a channel outside [0,255] reports the RGB       *)
(* validation error and makes no exchange, whatever the brightness         *)
(* argument is, in range or not.                                           *)
(***************************************************************************)
ChannelOutOfRange(args) == \E i \in 1..3 : args[i] < 0 \/ args[i] > 255

C2_RgbValidatedBeforeExchange ==
    /\ (Called("tool", "set_bulb_rgb_color") /\ ChannelOutOfRange(last.args)) =>
          /\ InvalidArgument(last.out.result)
          /\ last.out.result.error = <<"RGB values must be between 0 and 255">>
          /\ Exchanges = <<>>
    /\ (Called("controller", "set_rgb_color") /\ ChannelOutOfRange(last.args)) =>
          /\ RaisedValueError(last.out)
          /\ last.out.exc.msg = "RGB values must be between 0 and 255"
          /\ Exchanges = <<>>

C2_Witness ==
    /\ Called("tool", "set_bulb_rgb_color")
    /\ last.args = <<255, 0, 256, 101>>
    /\ InvalidArgument(last.out.result)
    /\ Exchanges = <<>>

(***************************************************************************)
(* C3.  Every controller method validates its arguments before any         *)
(* network I/O: with temp outside [2200,6500], scene id outside [1,32],    *)
(* speed outside [10,200], or brightness outside [10,100] for set RGB      *)
(* color and set color temperature, the call raises the validation error   *)
(* and sends no datagram.                                                  *)
(***************************************************************************)
ControllerArgsOutOfRange ==
    \/ Called("controller", "set_color_temperature")
          /\ (last.args[1] < 2200 \/ last.args[1] > 6500
              \/ last.args[2] < 10 \/ last.args[2] > 100)
    \/ Called("controller", "set_scene")
          /\ (last.args[1] < 1 \/ last.args[1] > 32)
    \/ Called("controller", "set_speed")
          /\ (last.args[1] < 10 \/ last.args[1] > 200)
    \/ Called("controller", "set_rgb_color")
          /\ (last.args[4] < 10 \/ last.args[4] > 100)

C3_ControllerValidatesBeforeIO ==
    ControllerArgsOutOfRange =>
        /\ RaisedValueError(last.out)
        /\ Exchanges = <<>>
        /\ DatagramsIn(Exchanges) = 0

(***************************************************************************)
(* C4.  The set scene tool with a scene id outside [1,32] returns an       *)
(* invalid-argument result with success = false and makes no exchange;     *)
(* with a scene id in [1,32] and the reply {result: {success: true}} it    *)
(* returns success = true and the scene id it was given.                   *)
(***************************************************************************)
C4_SetSceneTool ==
    Called("tool", "set_bulb_scene") =>
        IF last.args[1] < 1 \/ last.args[1] > 32
        THEN /\ InvalidArgument(last.out.result)
             /\ last.out.result.success = FALSE
             /\ Exchanges = <<>>
        ELSE ChOf(last) = Reply(Dict([result |-> Dict([success |-> TRUE])])) =>
                /\ last.out.result.success = TRUE
                /\ last.out.result.scene_id = last.args[1]

C4_Witness ==
    /\ Called("tool", "set_bulb_scene")
    /\ last.args[1] = 2
    /\ ChOf(last) = Reply(Dict([result |-> Dict([success |-> TRUE])]))
    /\ last.out.result.success = TRUE
    /\ last.out.result.scene_id = 2

(***************************************************************************)
(* C5.  A mutating operation called with in-range arguments reports        *)
(* success if and only if the exchange returned a reply that is a mapping  *)
(* whose result is a mapping with success = true; a reply with success =   *)
(* false or with no result.success is reported as failure.  (success, when *)
(* present, is a boolean.)                                                 *)
(***************************************************************************)
InRange(x, lo, hi) == lo <= x /\ x <= hi

MutatingInRange ==
    /\ last.layer \in {"controller", "tool"}
    /\ \/ last.op \in {"turn_on", "turn_off", "turn_bulb_on", "turn_bulb_off"}
       \/ /\ last.op \in {"set_brightness", "set_bulb_brightness"}
          /\ InRange(last.args[1], 10, 100)
       \/ /\ last.op \in {"set_rgb_color", "set_bulb_rgb_color"}
          /\ ~ChannelOutOfRange(last.args)
          /\ InRange(last.args[4], 10, 100)
       \/ /\ last.op \in {"set_color_temperature", "set_bulb_color_temperature"}
          /\ InRange(last.args[1], 2200, 6500)
          /\ InRange(last.args[2], 10, 100)
       \/ /\ last.op \in {"set_scene", "set_bulb_scene"}
          /\ InRange(last.args[1], 1, 32)
       \/ /\ last.op = "set_speed"
          /\ InRange(last.args[1], 10, 200)

ReportedSuccess ==
    IF last.layer = "tool"
    THEN last.out.result.success = TRUE
    ELSE last.out.exc = NoExc /\ last.out.ret = TRUE

C5_SuccessIffReplySaysSo ==
    MutatingInRange => (ReportedSuccess <=> SaysSuccess(ChOf(last)))

C5_Witness ==
    /\ Called("tool", "set_bulb_rgb_color")
    /\ MutatingInRange
    /\ SaysSuccess(ChOf(last))
    /\ ReportedSuccess

(***************************************************************************)
(* C6.  When the exchange times out, the call reports failure and does not *)
(* raise: a mutating operation returns false (success = false from the     *)
(* tool), get status returns no status (the tool reports offline), and     *)
(* check online returns false.                                             *)
(***************************************************************************)
C6_TimeoutReportedAsFailure ==
    ChOf(last) = Timeout =>
        /\ last.layer = "controller" =>
              /\ last.out.exc = NoExc
              /\ IF last.op = "get_status"
                 THEN last.out.ret = None
                 ELSE last.out.ret = FALSE
        /\ last.layer = "tool" =>
              CASE last.op = "get_bulb_status" ->
                      /\ last.out.result.status = "offline"
                      /\ "state" \notin DOMAIN last.out.result
                [] last.op = "check_bulb_connection" ->
                      /\ last.out.result.online = FALSE
                      /\ last.out.result.status = "disconnected"
                [] OTHER -> last.out.result.success = FALSE

C6_Witness ==
    /\ Called("tool", "get_bulb_status")
    /\ ChOf(last) = Timeout
    /\ last.out.result.status = "offline"

(***************************************************************************)
(* C7.  The socket an exchange opened is released on every exit path: once *)
(* the exchange has returned, with a reply, after a timeout or after a     *)
(* parse failure, it has been closed, so no socket is open after any       *)
(* sequence of exchanges.                                                  *)
(***************************************************************************)
C7_NoSocketLeftOpen ==
    /\ \A i \in 1..Len(Exchanges) : Exchanges[i].closed = Exchanges[i].opened
    /\ openSockets = 0

(***************************************************************************)
(* C8.  As claimed: the result a caller gets for an exchange that timed    *)
(* out differs from the result the same call gets for an exchange whose    *)
(* reply could not be parsed.                                              *)
(***************************************************************************)
\* What the caller of call c sees: the tool's dict, or what the method
\* returned or raised.
Seen(c) ==
    IF c.layer = "tool" THEN <<c.out.result>> ELSE <<c.out.exc, c.out.ret>>

\* The same call made twice in a row, timing out and then getting garbage.
TimeoutThenGarbage ==
    /\ last.layer \in {"controller", "tool"}
    /\ ChOf(last) = Timeout
    /\ last'.layer = last.layer
    /\ last'.op = last.op
    /\ last'.args = last.args
    /\ ChOf(last)' = Garbage

C8_TimeoutAndParseErrorDiffer ==
    [][TimeoutThenGarbage => Seen(last)' # Seen(last)]_vars

(***************************************************************************)
(* C8, amended.  A timeout and an unparseable reply are both surfaced as   *)
(* failure, never as success, and the caller cannot tell them apart: the   *)
(* same call returns the same result for both.                             *)
(***************************************************************************)
ReportsFailure(c) ==
    IF c.layer = "tool"
    THEN CASE c.op = "get_bulb_status" -> c.out.result.status = "offline"
           [] c.op = "check_bulb_connection" -> c.out.result.online = FALSE
           [] OTHER -> c.out.result.success = FALSE
    ELSE c.out.exc = NoExc
         /\ IF c.op = "get_status" THEN c.out.ret = None ELSE c.out.ret = FALSE

C8_TimeoutAndParseErrorAlike ==
    [][TimeoutThenGarbage =>
          /\ Seen(last)' = Seen(last)
          /\ ReportsFailure(last)
          /\ ReportsFailure(last)']_vars

C8_Witness ==
    /\ Called("tool", "turn_bulb_on")
    /\ ChOf(last) = Garbage
    /\ last.out.result = turn_bulb_on(Timeout).result
    /\ last.out.result.success = FALSE

(***************************************************************************)
(* C9.  Status interpretation of a reply's result document: power is on    *)
(* iff state is true; brightness is reported iff dimming is present, and   *)
(* is its value; the RGB triple is reported iff r, g and b are all         *)
(* present; color temperature is reported iff temp is present and the RGB  *)
(* triple is not reported.  {r=255,g=0,b=0,dimming=80,state=true} gives    *)
(* on, 80, RGB(255,0,0) and neither color temperature nor scene;           *)
(* {temp=4000,dimming=100,state=true} gives on, 100, 4000K and no RGB.     *)
(***************************************************************************)
\* The last call was get status on a reply with a result document.
StatusInterpreted ==
    /\ Called("tool", "get_bulb_status")
    /\ ChOf(last).kind = "reply"
    /\ ChOf(last).doc \in StatusReplies

PilotOf(c) == ChOf(c).doc.v["result"].v

C9_StatusInterpretation ==
    StatusInterpreted =>
        LET p == PilotOf(last)
            res == last.out.result
        IN  /\ res.status = "online"
            /\ res.state \in {"on", "off"}
            /\ res.state = "on" <=> ("state" \in DOMAIN p /\ p["state"] = TRUE)
            /\ "brightness" \in DOMAIN res <=> "dimming" \in DOMAIN p
            /\ "brightness" \in DOMAIN res => res.brightness = <<p["dimming"], "%">>
            /\ "color" \in DOMAIN res <=> {"r", "g", "b"} \subseteq DOMAIN p
            /\ "color" \in DOMAIN res =>
                  res.color = <<"RGB(", p["r"], ", ", p["g"], ", ", p["b"], ")">>
            /\ "color_temperature" \in DOMAIN res <=>
                  ("temp" \in DOMAIN p /\ "color" \notin DOMAIN res)
            /\ "color_temperature" \in DOMAIN res =>
                  res.color_temperature = <<p["temp"], "K">>
            /\ p = [r |-> 255, g |-> 0, b |-> 0, dimming |-> 80, state |-> TRUE] =>
                  res = [bulb_ip |-> BULB_IP, status |-> "online", state |-> "on",
                         brightness |-> <<80, "%">>,
                         color |-> <<"RGB(", 255, ", ", 0, ", ", 0, ")">>]
            /\ p = [temp |-> 4000, dimming |-> 100, state |-> TRUE] =>
                  res = [bulb_ip |-> BULB_IP, status |-> "online", state |-> "on",
                         brightness |-> <<100, "%">>,
                         color_temperature |-> <<4000, "K">>]

C9_Witness ==
    /\ StatusInterpreted
    /\ PilotOf(last) = [r |-> 255, g |-> 0, b |-> 0, dimming |-> 80, state |-> TRUE]
    /\ last.out.result.state = "on"
    /\ last.out.result.brightness = <<80, "%">>
    /\ DOMAIN last.out.result = {"bulb_ip", "status", "state", "brightness", "color"}

(***************************************************************************)
(* C10.  As claimed: for every status reply the interpreted state reports  *)
(* at most one of the RGB triple, the color temperature and the scene      *)
(* identifier.                                                             *)
(***************************************************************************)
ColorFieldsReported(res) == {"color", "color_temperature", "scene_id"} \cap DOMAIN res

C10_AtMostOneColorMode ==
    StatusInterpreted => Cardinality(ColorFieldsReported(last.out.result)) <= 1

(***************************************************************************)
(* C10, amended.  For every status reply the interpreted state reports at  *)
(* most one of the RGB triple and the color temperature; the scene         *)
(* identifier is reported whenever sceneId is present, also beside an RGB  *)
(* triple or a color temperature.                                          *)
(***************************************************************************)
C10_RgbOrTemperatureSceneBeside ==
    StatusInterpreted =>
        LET p == PilotOf(last)
            res == last.out.result
        IN  /\ ~({"color", "color_temperature"} \subseteq DOMAIN res)
            /\ "scene_id" \in DOMAIN res <=> "sceneId" \in DOMAIN p
            /\ "scene_id" \in DOMAIN res => res.scene_id = p["sceneId"]

C10_Witness ==
    /\ StatusInterpreted
    /\ {"r", "g", "b", "temp", "sceneId"} \subseteq DOMAIN PilotOf(last)
    /\ ColorFieldsReported(last.out.result) = {"color", "scene_id"}


(***************************************************************************)
(* Discovery.                                                              *)
(***************************************************************************)
Discovered == Called("discovery", "discover_bulbs")

\* The sweep of the last discovery call and the candidates its output names.
SweepOf == last.args[1]

Candidates == IF SweepOf.kind = "completed" THEN findall(SweepOf.stdout) ELSE <<>>

\* The i-th probe of the last discovery call got a datagram that parsed.
Responded(i) == Exchanges[i].ch.kind = "reply"

\* The i-th probe got a status response: a mapping with a result mapping.
StatusShaped(i) ==
    /\ Responded(i)
    /\ IsDict(Exchanges[i].ch.doc)
    /\ IsDict(Get(Exchanges[i].ch.doc, "result", None))

Found == last.out.ret

\* C11: a completed discovery returns exactly the candidates whose probe was
\* answered, in the order of the scan, and no address twice, also when the
\* sweep names an address more than once.
C11_RespondersOnceInScanOrder ==
    (Discovered /\ SweepOf.kind = "completed") =>
        /\ last.out.exc = NoExc
        /\ \A a \in Addresses :
              (\E j \in 1..Len(Found) : Found[j] = a)
                  <=> (\E i \in 1..Len(Candidates) : Candidates[i] = a /\ Responded(i))
        /\ \A j, k \in 1..Len(Found) : j # k => Found[j] # Found[k]
        /\ \A j, k \in 1..Len(Found) :
              j < k => \E i, m \in 1..Len(Candidates) :
                          i < m /\ Candidates[i] = Found[j] /\ Candidates[m] = Found[k]

C18_NoSweepNoProbe ==
    (Discovered /\ SweepOf.kind \in {"FileNotFoundError", "TimeoutExpired"}) =>
        /\ last.out.exc = NoExc
        /\ Found = <<>>
        /\ Exchanges = <<>>

\* A sweep that timed out after it had named an address.
C18_Witness ==
    /\ Discovered
    /\ SweepOf.kind = "TimeoutExpired"
    /\ findall(SweepOf.stdout) # <<>>
    /\ Found = <<>>

\* A discovery cut short by the sweep's timeout, then one whose sweep
\* completed and that found no device.
CutShortThenEmpty ==
    /\ Discovered
    /\ SweepOf.kind = "TimeoutExpired"
    /\ Discovered'
    /\ SweepOf'.kind = "completed"
    /\ Found' = <<>>

\* C19 as the spec states it: the caller can tell a discovery cut short at
\* the scan bound from a completed one that found no device.
C19_CutShortIsSignalled ==
    [][CutShortThenEmpty => Seen(last) # Seen(last')]_vars

\* C19, amended: a discovery cut short at the sweep's bound returns the
\* empty list and nothing else, which is what a completed discovery that
\* found no device returns.
C19_CutShortLooksEmpty ==
    [][CutShortThenEmpty =>
          /\ Seen(last) = <<NoExc, <<>>>>
          /\ Seen(last) = Seen(last')]_vars

\* A sweep that timed out after it had named two different addresses.
C19_Witness ==
    /\ Discovered
    /\ SweepOf.kind = "TimeoutExpired"
    /\ \E i, m \in 1..Len(findall(SweepOf.stdout)) :
          findall(SweepOf.stdout)[i] # findall(SweepOf.stdout)[m]


(***************************************************************************)
(* The results of the tools.                                               *)
(***************************************************************************)
\* The call of a tool ended with the return of a dict.
ReturnedDict(c) ==
    /\ DOMAIN c.out = {"result", "exchanges"}
    /\ "bulb_ip" \in DOMAIN c.out.result

\* C13: every call of a tool returns a dict, whatever its arguments and
\* whatever the network does: no reply, a payload that does not parse, a
\* reply that is no mapping or whose result is no mapping.
C13_ToolsAlwaysReturn ==
    last.layer = "tool" => ReturnedDict(last)

\* A tool whose controller method raised on a reply that is no mapping.
C13_Witness ==
    /\ Called("tool", "turn_bulb_on")
    /\ ChOf(last) = Reply(JsonList)
    /\ ReturnedDict(last)
    /\ "error" \in DOMAIN last.out.result

\* C14: the dict a tool returns has, on every path, an operation field, a
\* success field, and a message or an error field.
C14_UniformResultShape ==
    last.layer = "tool" =>
        /\ {"operation", "success"} \subseteq DOMAIN last.out.result
        /\ DOMAIN last.out.result \cap {"message", "error"} # {}

\* C16: a call makes at most one exchange, and an exchange sends its
\* datagram once (never, when the send itself fails) and reads at most one
\* datagram, whether the device answers, rejects, stays silent or answers
\* with a payload that does not parse.
C16_NoRetry ==
    last.layer \in {"controller", "tool"} =>
        /\ Len(Exchanges) <= 1
        /\ \A i \in 1..Len(Exchanges) :
              /\ Len(Exchanges[i].sent) = IF Exchanges[i].ch.kind = "send_error" THEN 0 ELSE 1
              /\ Exchanges[i].received <= 1

\* A tool call that met silence and sent its one datagram.
C16_Witness ==
    /\ last.layer = "tool"
    /\ ChOf(last) = Timeout
    /\ Len(Exchanges) = 1
    /\ DatagramsIn(Exchanges) = 1


(***************************************************************************)
(* The controller object and the datagram on the wire.                     *)
(***************************************************************************)
\* C17: no call changes the controller (address, port and timeout stay as
\* constructed, socket stays None), and every get_status / is_online, and
\* the tools over them, makes one exchange of its own and answers from the
\* reply to that exchange alone.
C17_ControllerStateless ==
    /\ bulb = WizBulbController(BULB_IP, 38899, 2)
    /\ bulb.socket = None
    /\ (last.layer \in {"controller", "tool"}
        /\ last.op \in {"get_status", "is_online", "get_bulb_status",
                        "check_bulb_connection"}) =>
          /\ Len(Exchanges) = 1
          /\ Exchanges[1].command = [method |-> "getPilot"]
          /\ CASE last.op = "get_status" ->
                    last.out.ret = IF ChOf(last).kind = "reply" THEN ChOf(last).doc ELSE None
               [] last.op = "is_online" ->
                    last.out.ret = (ChOf(last).kind = "reply")
               [] last.op = "check_bulb_connection" ->
                    last.out.result.online = (ChOf(last).kind = "reply")
               [] last.op = "get_bulb_status" ->
                    (last.out.result.status = "offline") = (ChOf(last).kind # "reply")

\* A status read answered by the bulb while a socket of an earlier call,
\* one that failed, is still open.
C17_Witness ==
    /\ Called("controller", "get_status")
    /\ ChOf(last).kind = "reply"
    /\ last.out.ret = ChOf(last).doc
    /\ openSockets > 0

\* The document of the datagram the last call sent.
Wire == Exchanges[1].sent[1].payload

SendsGetPilot == Wire = <<<<"method", "\"getPilot\"">>>>

\* A setPilot whose params are exactly the given members, each once.
SendsSetPilot(members) ==
    /\ Len(Wire) = 2
    /\ Wire[1] = <<"method", "\"setPilot\"">>
    /\ Wire[2][1] = "params"
    /\ Len(Wire[2][2]) = Cardinality(members)
    /\ { Wire[2][2][i] : i \in 1..Len(Wire[2][2]) } = members

\* C20: the datagram of every operation carries the method and exactly the
\* parameters of the operations table, with the values of the arguments.
C20_WireCommandPerTable ==
    (last.layer \in {"controller", "tool"} /\ DatagramsIn(Exchanges) > 0) =>
        LET a == last.args
        IN  CASE last.op \in {"get_status", "is_online", "get_bulb_status",
                              "check_bulb_connection"} ->
                     SendsGetPilot
              [] last.op \in {"turn_on", "turn_bulb_on"} ->
                     SendsSetPilot({<<"state", "true">>})
              [] last.op \in {"turn_off", "turn_bulb_off"} ->
                     SendsSetPilot({<<"state", "false">>})
              [] last.op \in {"set_brightness", "set_bulb_brightness"} ->
                     SendsSetPilot({<<"state", "true">>, <<"dimming", ToString(a[1])>>})
              [] last.op \in {"set_rgb_color", "set_bulb_rgb_color"} ->
                     SendsSetPilot({<<"state", "true">>, <<"r", ToString(a[1])>>,
                                    <<"g", ToString(a[2])>>, <<"b", ToString(a[3])>>,
                                    <<"dimming", ToString(a[4])>>})
              [] last.op \in {"set_color_temperature", "set_bulb_color_temperature"} ->
                     SendsSetPilot({<<"state", "true">>, <<"temp", ToString(a[1])>>,
                                    <<"dimming", ToString(a[2])>>})
              [] last.op \in {"set_scene", "set_bulb_scene"} ->
                     SendsSetPilot({<<"state", "true">>, <<"sceneId", ToString(a[1])>>})
              [] last.op = "set_speed" ->
                     SendsSetPilot({<<"speed", ToString(a[1])>>})

\* A speed command on the wire: the speed and nothing else.
C20_Witness ==
    /\ Called("controller", "set_speed")
    /\ last.args = <<200>>
    /\ DatagramsIn(Exchanges) = 1
    /\ Wire = <<<<"method", "\"setPilot\"">>, <<"params", <<<<"speed", "200">>>>>>>>


(***************************************************************************)
(* Exchanges that overlap or follow one another.                           *)
(***************************************************************************)
\* C15: every exchange has a socket of its own, returns only a datagram
\* that was delivered to that socket, and a reply of the device that it
\* returns is the reply to its own request: never the reply to another
\* exchange, and never the late reply to an exchange that timed out.
C15_ExchangesIsolated ==
    /\ \A e, f \in 1..Len(exch) : e # f => exch[e].sock # exch[f].sock
    /\ \A e \in 1..Len(exch) :
          exch[e].response.kind = "reply" =>
              /\ exch[e].response.via = exch[e].sock
              /\ exch[e].response.for \in {0, e}


\* C21: an exchange that has sent its datagram returns, with a parsed
\* reply, a timeout or an error and nothing else, also when the device
\* never answers.
C21_ExchangeTerminates ==
    \A e \in 1..MaxExchanges :
        (e \in DOMAIN exch /\ exch[e].pc = "sent")
            ~> (/\ e \in DOMAIN exch
                /\ exch[e].pc = "returned"
                /\ exch[e].response.kind \in {"reply", "timeout", "error"})

\* An exchange that returned with a timeout while the reply of the device
\* was still on its way.
C21_Witness ==
    \E e \in 1..Len(exch) :
        /\ exch[e].pc = "returned"
        /\ exch[e].response = TimedOut
        /\ Packet(socks[exch[e].sock].port, e, TRUE) \in wire

\* The datagram recvfrom hands to exchange e next, if there is one.
FirstQueued(e) == Head(socks[exch[e].sock].queue)

\* C22: an exchange that returns while a datagram that parses is first in
\* the queue of its socket returns that datagram as its response, whether
\* the device or another host sent it.
C22_FirstDatagramIsTheResponse ==
    [][\A e \in 1..Len(exch) :
          (/\ exch[e].pc = "sent"
           /\ exch'[e].pc = "returned"
           /\ socks[exch[e].sock].queue # <<>>
           /\ FirstQueued(e).parses)
              => exch'[e].response = Answer(FirstQueued(e).for, exch[e].sock)]_vars

\* An exchange that returned the datagram of another host while the reply
\* of the device had not arrived.
C22_Witness ==
    \E e \in 1..Len(exch) :
        /\ exch[e].pc = "returned"
        /\ exch[e].response = Answer(0, exch[e].sock)
        /\ Packet(socks[exch[e].sock].port, e, TRUE) \in wire

====
